---- MODULE Spec2Model ----
(***************************************************************************)
(* Model of the hazard MCP server (src/src/main.py): the profile registry, *)
(* the severity scaler, the repair-plan builder, the progression model and *)
(* the three tools query_hazards, estimate_repair_plan, project_worsening. *)
(*                                                                         *)
(* Numbers.  The code computes in binary floating point; the model         *)
(* computes the same expressions exactly, in scaled integers:              *)
(*   scale                in hundredths            (..100)                 *)
(*   hours                in thousandths           (..1000)                *)
(*   money before rounding in 1e-4 (..M4) or 1e-6 (..M6) currency units    *)
(*   every value rounded by round(x, 2) in hundredths ("cents")            *)
(*   weekly rate          in 1e-4 per week                                 *)
(*   weather multiplier   in 1/200                                         *)
(*   projected severity   as a numerator over ProjDen                      *)
(* round(x, 2) is round-to-nearest; at an exact decimal tie the model      *)
(* rounds half to even (Python's rule for an exactly representable tie).   *)
(*                                                                         *)
(* Text.  A Python str on which the code does character work (hazard_type, *)
(* location, ids, created_at, severity literals) is a sequence of          *)
(* one-character strings; fixed labels are TLA+ strings.                   *)
(***************************************************************************)
EXTENDS Integers, Sequences, FiniteSets, TLC

VARIABLES
  store,    \* the rows of table "hazards", in table order (external store)
  pc,       \* "idle": no call in progress; "returned": a tool call returned
  call,     \* the tool invocation being served: tool name and arguments
  result,   \* what the invocation returned or raised
  queries,  \* the store queries the invocation issued, in order
  tables    \* the module's tables HAZARD_PROFILES and TYPE_WORSENING, as
            \* they stand now (dicts and lists a holder of them can alter)

vars == <<store, pc, call, result, queries, tables>>

----------------------------------------------------------------------------
(* Python values: None, int, str, list and the conversions the code applies. *)

PyNone == [t |-> "none"]
PyInt(n) == [t |-> "int", v |-> n]
PyStr(s) == [t |-> "str", v |-> s]
PyList(s) == [t |-> "list", v |-> s]

\* bool(x) read as "x is not None"
Truthy_not_none(x) == x.t # "none"

\* bool(x): None, 0 and "" are falsy
Truthy(x) ==
  CASE x.t = "none" -> FALSE
    [] x.t = "int" -> x.v # 0
    [] x.t = "str" -> Len(x.v) > 0
    [] x.t = "list" -> Len(x.v) > 0

\* x or d
PyOr(x, d) == IF Truthy(x) THEN x ELSE d

UpperChars == <<"A","B","C","D","E","F","G","H","I","J","K","L","M",
                "N","O","P","Q","R","S","T","U","V","W","X","Y","Z">>
LowerChars == <<"a","b","c","d","e","f","g","h","i","j","k","l","m",
                "n","o","p","q","r","s","t","u","v","w","x","y","z">>

ToLowerChar(c) ==
  IF \E i \in 1..26 : UpperChars[i] = c
    THEN LowerChars[CHOOSE i \in 1..26 : UpperChars[i] = c]
    ELSE c

\* str.lower() that leaves every character as it is
StrLower_identity(s) == s

\* str.lower()
StrLower(s) == [i \in 1..Len(s) |-> ToLowerChar(s[i])]

IsSpace(c) == c \in {" ", "\t", "\n"}

RECURSIVE LStrip(_)
LStrip(s) == IF Len(s) > 0 /\ IsSpace(Head(s)) THEN LStrip(Tail(s)) ELSE s

RECURSIVE RStrip(_)
RStrip(s) ==
  IF Len(s) > 0 /\ IsSpace(s[Len(s)]) THEN RStrip(SubSeq(s, 1, Len(s) - 1)) ELSE s

\* str.strip()
StrStrip(s) == RStrip(LStrip(s))

\* s[:n]
StrPrefix(s, n) == SubSeq(s, 1, IF Len(s) < n THEN Len(s) ELSE n)

DigitChars == <<"0","1","2","3","4","5","6","7","8","9">>
IsDigit(c) == \E i \in 1..10 : DigitChars[i] = c
DigitVal(c) == (CHOOSE i \in 1..10 : DigitChars[i] = c) - 1

RECURSIVE DigitsVal(_)
DigitsVal(s) ==
  IF Len(s) = 0 THEN 0
  ELSE 10 * DigitsVal(SubSeq(s, 1, Len(s) - 1)) + DigitVal(s[Len(s)])

AllDigits(s) == Len(s) > 0 /\ \A i \in 1..Len(s) : IsDigit(s[i])

\* the literal int() accepts: surrounding whitespace, an optional sign, digits
IntLiteralBody(s) ==
  LET u == StrStrip(s)
  IN IF Len(u) > 0 /\ Head(u) \in {"+", "-"} THEN Tail(u) ELSE u

IntLiteralNeg(s) ==
  LET u == StrStrip(s) IN Len(u) > 0 /\ Head(u) = "-"

\* int(x) raises (TypeError for None, ValueError for a non-numeric str)
IntRaises(x) ==
  CASE x.t = "none" -> TRUE
    [] x.t = "int" -> FALSE
    [] x.t = "str" -> ~AllDigits(IntLiteralBody(x.v))

\* int(x), where it does not raise
IntOf(x) ==
  IF x.t = "int" THEN x.v
  ELSE IF IntLiteralNeg(x.v) THEN 0 - DigitsVal(IntLiteralBody(x.v))
  ELSE DigitsVal(IntLiteralBody(x.v))

Max(a, b) == IF a >= b THEN a ELSE b
Min(a, b) == IF a <= b THEN a ELSE b

\* round(x, 2) of x = num / (100 * perCent), in hundredths
Round2(num, perCent) ==
  LET q == num \div perCent
      r == num % perCent
  IN IF 2 * r > perCent THEN q + 1
     ELSE IF 2 * r < perCent THEN q
     ELSE IF q % 2 = 0 THEN q ELSE q + 1

----------------------------------------------------------------------------
(* Hazard profiles and the severity scaler.                                *)

S_pothole == <<"p","o","t","h","o","l","e">>
S_flooding == <<"f","l","o","o","d","i","n","g">>
S_debris == <<"d","e","b","r","i","s">>
S_damaged_signage == <<"d","a","m","a","g","e","d","_","s","i","g","n","a","g","e">>

\* base_hours in tenths; hourly rates and material_baseline in whole currency
HAZARD_PROFILES ==
  [t \in {S_pothole, S_flooding, S_debris, S_damaged_signage} |->
    CASE t = S_pothole ->
           [name |-> "pothole",
            crew |-> <<[role |-> "Lead/Safety", count |-> 1],
                       [role |-> "Patcher/Laborer", count |-> 1],
                       [role |-> "Truck Operator", count |-> 1]>>,
            base_hours |-> 10,
            equipment_hourly |-> 65,
            labor_hourly |-> 90,
            traffic_ctrl_hourly |-> 55,
            material_baseline |-> 240,
            materials |-> <<"Hot mix/cold patch", "Tack (as needed)",
                            "Broom/shovel", "Cones/signage">>,
            steps |-> <<"Traffic control setup", "Prepare/clean defect",
                        "Place material", "Compact & finish", "Cleanup & reopen">>]
      [] t = S_flooding ->
           [name |-> "flooding",
            crew |-> <<[role |-> "Lead/Safety", count |-> 1],
                       [role |-> "Pump Operator", count |-> 1]>>,
            base_hours |-> 13,
            equipment_hourly |-> 70,
            labor_hourly |-> 90,
            traffic_ctrl_hourly |-> 55,
            material_baseline |-> 60,
            materials |-> <<"Portable pump/hose", "Sandbags as needed", "Cones/signage">>,
            steps |-> <<"Traffic control", "Assess blockage", "Pump/clear inlet",
                        "Place temp mitigation", "Cleanup/monitor">>]
      [] t = S_debris ->
           [name |-> "debris",
            crew |-> <<[role |-> "Lead/Safety", count |-> 1],
                       [role |-> "Laborer", count |-> 1]>>,
            base_hours |-> 8,
            equipment_hourly |-> 55,
            labor_hourly |-> 85,
            traffic_ctrl_hourly |-> 50,
            material_baseline |-> 40,
            materials |-> <<"Chainsaw (if needed)", "Broom/shovel", "Trash bags",
                            "Cones/signage">>,
            steps |-> <<"Traffic control", "Segment and remove debris",
                        "Load/haul or stage", "Sweep/cleanup", "Reopen">>]
      [] t = S_damaged_signage ->
           [name |-> "damaged_signage",
            crew |-> <<[role |-> "Lead/Safety", count |-> 1],
                       [role |-> "Installer", count |-> 1]>>,
            base_hours |-> 9,
            equipment_hourly |-> 50,
            labor_hourly |-> 85,
            traffic_ctrl_hourly |-> 50,
            material_baseline |-> 180,
            materials |-> <<"Sign panel/post", "Hardware/anchors", "Cones/signage">>,
            steps |-> <<"Traffic control", "Remove damaged hardware",
                        "Install/align new sign", "Tighten & verify sightlines",
                        "Cleanup">>]]

\* _get_profile(hazard_type): strip, lower, look up, default to pothole
ProfileKey(hazard_type) ==
  LET t == StrLower(StrStrip(PyOr(hazard_type, PyStr(<<>>)).v))
  IN IF t \in DOMAIN tables.HAZARD_PROFILES THEN t ELSE S_pothole

_get_profile(hazard_type) == tables.HAZARD_PROFILES[ProfileKey(hazard_type)]

\* _severity_scale without the cap at 3.0
_severity_scale_uncapped(sev) ==
  LET s == Max(0, Min(10, sev))
  IN Max(60, 60 + 25 * s)

\* _severity_scale(sev), in hundredths
_severity_scale(sev) ==
  LET s == Max(0, Min(10, sev))
  IN Max(60, Min(300, 60 + 25 * s))

\* int(h.get("severity") or 3): the severity a record is taken to have;
\* SeverityRaises where int() raises instead
SeverityRaises(h) == IntRaises(PyOr(h.severity, PyInt(3)))
SeverityOf(h) == IntOf(PyOr(h.severity, PyInt(3)))

\* hours = base_hours * scale, in thousandths
PlanHours(prof, scale) == prof.base_hours * scale

\* material + labor + equipment + traffic control + mobilization, M4
PlanSubtotal(prof, scale) ==
  LET labor == prof.labor_hourly
      equip == prof.equipment_hourly
      traffic == prof.traffic_ctrl_hourly
      base_hours == PlanHours(prof, scale)
      mobilization == 1200000
      material_cost == prof.material_baseline * (6000 + 40 * scale)
      labor_cost == labor * base_hours * 10
      equipment_cost == equip * Max(6000, 5 * base_hours)
      traffic_ctrl_cost == traffic * Max(5000, 6 * base_hours)
  IN material_cost + labor_cost + equipment_cost + traffic_ctrl_cost + mobilization

\* round(subtotal + 0.12 * subtotal + 0.15 * subtotal, 2), in cents
PlanTotal(subtotal) == Round2(100 * subtotal + 12 * subtotal + 15 * subtotal, 10000)

\* StepTime with the floor at 0.20 instead of 0.15
StepTime_floor20(base_hours, count) ==
  LET n == Max(1, count)
  IN Round2(Max(200 * n, base_hours), 10 * n)

\* StepTime with the floor at 0.10 instead of 0.15
StepTime_floor10(base_hours, count) ==
  LET n == Max(1, count)
  IN Round2(Max(100 * n, base_hours), 10 * n)

\* round(max(0.15, base_hours / max(1, len(step_names))), 2), in hundredths
StepTime(base_hours, count) ==
  LET n == Max(1, count)
  IN Round2(Max(150 * n, base_hours), 10 * n)

\* _build_plan_for(h), where int() of the severity does not raise
_build_plan_for(h) ==
  LET prof == _get_profile(h.hazard_type)
      sev == SeverityOf(h)
      scale == _severity_scale(sev)
      labor == prof.labor_hourly
      equip == prof.equipment_hourly
      traffic == prof.traffic_ctrl_hourly
      base_hours == PlanHours(prof, scale)                   \* thousandths
      material_cost == prof.material_baseline * (6000 + 40 * scale)      \* M4
      labor_cost == labor * base_hours * 10                              \* M4
      equipment_cost == equip * Max(6000, 5 * base_hours)                \* M4
      traffic_ctrl_cost == traffic * Max(5000, 6 * base_hours)           \* M4
      subtotal == PlanSubtotal(prof, scale)                              \* M4
      contingency == 12 * subtotal                                       \* M6
      ohp == 15 * subtotal                                               \* M6
      total == PlanTotal(subtotal)
      step_names == prof.steps
      step_time == StepTime(base_hours, Len(step_names))
      steps == [i \in 1..Len(step_names) |->
                  [step |-> i, name |-> step_names[i], duration_hr |-> step_time]]
  IN [assumptions |->
        [hazard_type |-> StrLower(PyOr(h.hazard_type, PyStr(<<>>)).v),
         severity |-> sev,
         scaling |-> scale],
      costs |->
        [material |-> Round2(material_cost, 100),
         labor |-> Round2(labor_cost, 100),
         equipment |-> Round2(equipment_cost, 100),
         traffic_control |-> Round2(traffic_ctrl_cost, 100),
         mobilization |-> 12000,
         contingency_12pct |-> Round2(contingency, 10000),
         overhead_profit_15pct |-> Round2(ohp, 10000),
         total_estimate |-> total],
      crew |-> prof.crew,
      tools_materials |-> prof.materials,
      plan_steps |-> steps,
      schedule |->
        [on_site_hours |-> Round2(base_hours + 300, 10),
         lane_closure_hours |-> Round2(Max(7500, 6 * base_hours), 100),
         target_completion |-> "same-day"],
      context |->
        [id |-> h.id,
         location |-> h.location,
         status |-> h.status,
         description_excerpt |-> StrPrefix(PyOr(h.description, PyStr(<<>>)).v, 140),
         images_count |-> Len(PyOr(h.images, PyList(<<>>)).v)],
      notes |-> "Type-aware, severity-scaled estimate using only fields present in your table."]

----------------------------------------------------------------------------
(* Progression model.                                                      *)

\* per-type multiplier on weekly growth, in hundredths
TYPE_WORSENING ==
  [t \in {S_pothole, S_flooding, S_debris, S_damaged_signage} |->
    CASE t = S_pothole -> 140
      [] t = S_flooding -> 125
      [] t = S_debris -> 85
      [] t = S_damaged_signage -> 75]

\* TYPE_WORSENING.get((hazard_type or "").lower(), 1.1), in hundredths
WorseningMult(hazard_type) ==
  LET t == StrLower(PyOr(hazard_type, PyStr(<<>>)).v)
  IN IF t \in DOMAIN tables.TYPE_WORSENING THEN tables.TYPE_WORSENING[t]
     ELSE 110

\* the key _get_profile looks up: (hazard_type or "").strip().lower()
ProfileLookup(hazard_type) == StrLower(StrStrip(PyOr(hazard_type, PyStr(<<>>)).v))

\* the key _progression_per_week looks up: (hazard_type or "").lower()
WorseningLookup(hazard_type) == StrLower(PyOr(hazard_type, PyStr(<<>>)).v)

\* _progression_per_week(severity, hazard_type), in 1e-4 per week
_progression_per_week(severity, hazard_type) ==
  LET base == 2 * Max(0, Min(10, severity))      \* hundredths
      mult == WorseningMult(hazard_type)         \* hundredths
  IN Min(2500, base * mult)

\* _weather_multiplier without the cap on the precipitation term
_weather_multiplier_uncapped(precip_mm, freeze_thaw_cycles) ==
  200 + precip_mm + Min(80, 10 * freeze_thaw_cycles)

\* _weather_multiplier(precip_mm, freeze_thaw_cycles), in 1/200
_weather_multiplier(precip_mm, freeze_thaw_cycles) ==
  200 + Min(100, precip_mm) + Min(80, 10 * freeze_thaw_cycles)

\* the denominator of a projected severity: weeks in sevenths, the weekly
\* rate in 1e-4, the weather multiplier in 1/200
ProjDen == 7 * 10000 * 200

\* weeks without the floor at zero, in sevenths
Weeks_unfloored(horizon_days) == horizon_days

\* weeks = max(0.0, horizon_days / 7.0), in sevenths
Weeks(horizon_days) == Max(0, horizon_days)

\* min(10.0, sev0 * (1.0 + p * weeks) * weather_mult), over ProjDen
SevProj(sev0, p, weeks, weather_mult) ==
  Min(10 * ProjDen, sev0 * (70000 + p * weeks) * weather_mult)

----------------------------------------------------------------------------
(* created_at -> age_days (datetime.fromisoformat, datetime.now(utc)).     *)

\* created_at.replace("Z", "+00:00")
RECURSIVE ReplaceZ(_)
ReplaceZ(s) ==
  IF Len(s) = 0 THEN <<>>
  ELSE IF Head(s) = "Z" THEN <<"+","0","0",":","0","0">> \o ReplaceZ(Tail(s))
  ELSE <<Head(s)>> \o ReplaceZ(Tail(s))

Num2(s, i) == 10 * DigitVal(s[i]) + DigitVal(s[i + 1])
IsNum2(s, i) == IsDigit(s[i]) /\ IsDigit(s[i + 1])

IsLeap(y) == (y % 4 = 0 /\ y % 100 # 0) \/ y % 400 = 0

DaysInMonth(y, m) ==
  IF m = 2 THEN (IF IsLeap(y) THEN 29 ELSE 28)
  ELSE IF m \in {4, 6, 9, 11} THEN 30 ELSE 31

\* date.toordinal(): days since 0001-01-01, plus one
RECURSIVE DaysBeforeMonth(_, _)
DaysBeforeMonth(y, m) ==
  IF m = 1 THEN 0 ELSE DaysBeforeMonth(y, m - 1) + DaysInMonth(y, m - 1)

ToOrdinal(y, m, d) ==
  LET p == y - 1
  IN p * 365 + p \div 4 - p \div 100 + p \div 400 + DaysBeforeMonth(y, m) + d

\* YYYY-MM-DD at the head of s
DateOk(s) ==
  /\ Len(s) >= 10
  /\ \A i \in {1, 2, 3, 4, 6, 7, 9, 10} : IsDigit(s[i])
  /\ s[5] = "-" /\ s[8] = "-"
  /\ DigitsVal(SubSeq(s, 1, 4)) >= 1
  /\ Num2(s, 6) \in 1..12
  /\ Num2(s, 9) >= 1
  /\ Num2(s, 9) <= DaysInMonth(DigitsVal(SubSeq(s, 1, 4)), Num2(s, 6))

\* HH:MM:SS at positions 12..19, after a one-character separator
TimeOk(s) ==
  /\ Len(s) >= 19
  /\ IsNum2(s, 12) /\ s[14] = ":" /\ IsNum2(s, 15) /\ s[17] = ":" /\ IsNum2(s, 18)
  /\ Num2(s, 12) <= 23 /\ Num2(s, 15) <= 59 /\ Num2(s, 18) <= 59

\* the length of an optional fraction .fff or .ffffff starting at position 20
FracLen(s) ==
  IF Len(s) >= 20 /\ s[20] = "."
  THEN (IF Len(s) >= 26 /\ \A i \in 21..26 : IsDigit(s[i]) THEN 7
        ELSE IF Len(s) >= 23 /\ \A i \in 21..23 : IsDigit(s[i]) THEN 4
        ELSE 1)
  ELSE 0

\* a UTC offset +HH:MM or -HH:MM filling s from position i
OffsetOk(s, i) ==
  /\ Len(s) = i + 5
  /\ s[i] \in {"+", "-"}
  /\ IsNum2(s, i + 1) /\ s[i + 3] = ":" /\ IsNum2(s, i + 4)
  /\ Num2(s, i + 1) <= 23 /\ Num2(s, i + 4) <= 59

\* datetime.fromisoformat(s): [ok, aware, day, sec, off]
FromIso(s) ==
  LET bad == [ok |-> FALSE, aware |-> FALSE, day |-> 0, sec |-> 0, off |-> 0]
      day == ToOrdinal(DigitsVal(SubSeq(s, 1, 4)), Num2(s, 6), Num2(s, 9))
  IN IF ~DateOk(s) THEN bad
     ELSE IF Len(s) = 10
       THEN [ok |-> TRUE, aware |-> FALSE, day |-> day, sec |-> 0, off |-> 0]
     ELSE IF ~TimeOk(s) THEN bad
     ELSE LET sec == 3600 * Num2(s, 12) + 60 * Num2(s, 15) + Num2(s, 18)
              i == 20 + FracLen(s)
          IN IF FracLen(s) = 1 THEN bad
             ELSE IF Len(s) = i - 1
               THEN [ok |-> TRUE, aware |-> FALSE, day |-> day, sec |-> sec, off |-> 0]
             ELSE IF ~OffsetOk(s, i) THEN bad
             ELSE [ok |-> TRUE, aware |-> TRUE, day |-> day, sec |-> sec,
                   off |-> (IF s[i] = "-" THEN 0 - 1 ELSE 1)
                             * (3600 * Num2(s, i + 1) + 60 * Num2(s, i + 4))]

\* age_days of project_worsening: None unless created_at is a str that parses
\* to an aware datetime; now is [day, sec] of datetime.now(timezone.utc)
AgeDays(created_at, now) ==
  IF ~Truthy(created_at) THEN PyNone
  ELSE IF created_at.t # "str" THEN PyNone
  ELSE LET dt == FromIso(ReplaceZ(created_at.v))
       IN IF ~dt.ok \/ ~dt.aware THEN PyNone
          ELSE PyInt((now.day - dt.day) + ((now.sec - (dt.sec - dt.off)) \div 86400))

----------------------------------------------------------------------------
(* The store, as the code queries it: equality filter, ordering, limit and *)
(* grouping with a count over table "hazards".                             *)

\* .limit(5000) of the area fetch; the cap on returned samples
FetchCap == 5000
SampleCap == 50

\* .eq(field, value) that filters nothing
StoreEq_unfiltered(rows, field, value) == rows

\* .eq(field, value)
StoreEq(rows, field, value) == SelectSeq(rows, LAMBDA r : r[field] = value)

\* .limit(n) that cuts nothing
StoreLimit_unlimited(rows, n) == rows

\* .limit(n)
StoreLimit(rows, n) == SubSeq(rows, 1, Min(Len(rows), Max(0, n)))

\* the code points of the characters that occur, in ASCII order
AsciiChars == <<" ", "+", "-", ".">> \o DigitChars \o <<":">> \o UpperChars
                \o <<"_">> \o LowerChars
CharRank(c) == CHOOSE i \in 1..Len(AsciiChars) : AsciiChars[i] = c

RECURSIVE StrLess(_, _)
StrLess(a, b) ==
  IF Len(b) = 0 THEN FALSE
  ELSE IF Len(a) = 0 THEN TRUE
  ELSE IF Head(a) = Head(b) THEN StrLess(Tail(a), Tail(b))
  ELSE CharRank(Head(a)) < CharRank(Head(b))

\* x sorts before y under ORDER BY ... DESC (NULL first, then greater first)
DescBefore(x, y) ==
  IF x.t = "none" THEN y.t # "none"
  ELSE IF y.t = "none" THEN FALSE
  ELSE IF x.t = "int" THEN x.v > y.v
  ELSE StrLess(y.v, x.v)

\* r sorts strictly before q under .order(severity, desc).order(created_at, desc)
SevereBefore(r, q) ==
  \/ DescBefore(r.severity, q.severity)
  \/ r.severity = q.severity /\ DescBefore(r.created_at, q.created_at)

CountBefore(g, k) == g.count > k.count

\* r sorts strictly before q under the named ordering
Before(ordering, r, q) ==
  CASE ordering = "severity_created_at" -> SevereBefore(r, q)
    [] ordering = "severity" -> DescBefore(r.severity, q.severity)
    [] ordering = "count" -> CountBefore(r, q)

\* stable insertion of r into a sequence sorted by the ordering
RECURSIVE InsertSorted(_, _, _)
InsertSorted(sorted, r, ordering) ==
  IF Len(sorted) = 0 THEN <<r>>
  ELSE IF Before(ordering, r, Head(sorted)) THEN <<r>> \o sorted
  ELSE <<Head(sorted)>> \o InsertSorted(Tail(sorted), r, ordering)

RECURSIVE SortBy(_, _)
SortBy(rows, ordering) ==
  IF Len(rows) = 0 THEN <<>>
  ELSE InsertSorted(SortBy(SubSeq(rows, 1, Len(rows) - 1), ordering),
                    rows[Len(rows)], ordering)

\* StoreOrderSevere without the second ordering key
StoreOrderSevere_severity_only(rows) == SortBy(rows, "severity")

\* .order("severity", desc=True).order("created_at", desc=True)
StoreOrderSevere(rows) == SortBy(rows, "severity_created_at")

\* the distinct values of a field, in order of first appearance
RECURSIVE FieldValues(_, _)
FieldValues(rows, field) ==
  IF Len(rows) = 0 THEN <<>>
  ELSE LET front == FieldValues(SubSeq(rows, 1, Len(rows) - 1), field)
           v == rows[Len(rows)][field]
       IN IF \E i \in 1..Len(front) : front[i] = v THEN front ELSE Append(front, v)

\* .select("<field>, count:id").group(field): one row per value, with its count
StoreGroupCount(rows, field) ==
  LET vals == FieldValues(rows, field)
  IN [i \in 1..Len(vals) |->
        [key |-> vals[i], count |-> Len(StoreEq(rows, field, vals[i]))]]

\* .order("count", desc=True)
StoreOrderCount(groups) == SortBy(groups, "count")

----------------------------------------------------------------------------
(* The three tools.  Each is a function of the table rows and of the       *)
(* arguments, giving what the call returns or raises and the store queries *)
(* it issued.                                                              *)

K_area_with_most_hazards == <<"a","r","e","a","_","w","i","t","h","_","m","o","s","t","_","h","a","z","a","r","d","s">>
K_top_severe_in_area == <<"t","o","p","_","s","e","v","e","r","e","_","i","n","_","a","r","e","a">>
K_counts_by_type == <<"c","o","u","n","t","s","_","b","y","_","t","y","p","e">>
K_open_vs_resolved == <<"o","p","e","n","_","v","s","_","r","e","s","o","l","v","e","d">>

Returns(value, qs) == [result |-> [kind |-> "ok", value |-> value], queries |-> qs]
Raises(type, msg, about, qs) ==
  [result |-> [kind |-> "error", type |-> type, msg |-> msg, about |-> about],
   queries |-> qs]

\* AnalyticsTools.query_hazards(kind, location, limit)
query_hazards(rows, kind, location, limit) ==
  LET k == StrLower(PyOr(kind, PyStr(<<>>)).v)
  IN IF k = K_area_with_most_hazards THEN
       Returns([question |-> k,
                result |-> StoreLimit(StoreOrderCount(
                             StoreGroupCount(rows, "location")), 1)],
               <<[select |-> "location, count:id", group |-> "location",
                  order |-> "count desc", limit |-> 1]>>)
     ELSE IF k = K_top_severe_in_area THEN
       IF ~Truthy(location) THEN
         Raises("ValueError", "location is required for top_severe_in_area",
                PyNone, <<>>)
       ELSE
         Returns([question |-> k, location |-> location,
                  result |-> StoreLimit(StoreOrderSevere(
                               StoreEq(rows, "location", location)), limit)],
                 <<[select |-> "*", eq |-> location,
                    order |-> "severity desc, created_at desc", limit |-> limit]>>)
     ELSE IF k = K_counts_by_type THEN
       Returns([question |-> k, location |-> location,
                result |-> StoreGroupCount(
                             IF Truthy(location)
                               THEN StoreEq(rows, "location", location) ELSE rows,
                             "hazard_type")],
               <<[select |-> "hazard_type, count:id", group |-> "hazard_type",
                  eq |-> IF Truthy(location) THEN location ELSE PyNone]>>)
     ELSE IF k = K_open_vs_resolved THEN
       Returns([question |-> k, location |-> location,
                result |-> StoreGroupCount(
                             IF Truthy(location)
                               THEN StoreEq(rows, "location", location) ELSE rows,
                             "status")],
               <<[select |-> "status, count:id", group |-> "status",
                  eq |-> IF Truthy(location) THEN location ELSE PyNone]>>)
     ELSE
       Raises("ValueError",
              "Unknown kind. Use: area_with_most_hazards | top_severe_in_area | counts_by_type | open_vs_resolved",
              PyNone, <<>>)

\* the query .select("*").eq("id", hazard_id).limit(1)
ById(hazard_id) == [select |-> "*", eq |-> hazard_id, limit |-> 1]

\* RepairTools.estimate_repair_plan(hazard_id)
estimate_repair_plan(rows, hazard_id) ==
  LET recs == StoreLimit(StoreEq(rows, "id", hazard_id), 1)
  IN IF Len(recs) = 0 THEN
       Raises("ValueError", "Hazard not found", hazard_id, <<ById(hazard_id)>>)
     ELSE IF SeverityRaises(recs[1]) THEN
       Raises("ValueError", "invalid literal for int()", recs[1].severity,
              <<ById(hazard_id)>>)
     ELSE
       Returns([hazard |-> recs[1], repair_plan |-> _build_plan_for(recs[1])],
               <<ById(hazard_id)>>)

\* the action window decided on the projected severity as reported
ActionWindow_rounded(sev_proj) ==
  IF Round2(sev_proj, ProjDen \div 100) >= 700 THEN 14 ELSE 30

\* 14 if sev_proj >= 7 else 30
ActionWindow(sev_proj) == IF sev_proj >= 7 * ProjDen THEN 14 ELSE 30

\* the per-record projection of project_worsening (both modes), where int()
\* of the severity does not raise
Projection(h, weeks, weather_mult) ==
  LET sev0 == SeverityOf(h)
      p == _progression_per_week(sev0, h.hazard_type)
  IN [sev0 |-> sev0, p |-> p, sev_proj |-> SevProj(sev0, p, weeks, weather_mult)]

\* xs[lo] + ... + xs[hi], summed by halves
RECURSIVE SumRange(_, _, _)
SumRange(xs, lo, hi) ==
  IF lo > hi THEN 0
  ELSE IF lo = hi THEN xs[lo]
  ELSE LET mid == (lo + hi) \div 2
       IN SumRange(xs, lo, mid) + SumRange(xs, mid + 1, hi)

\* round(sev_now_sum / n, 2), in hundredths
AvgNow(projs, n) ==
  Round2(100 * SumRange([i \in 1..Len(projs) |-> projs[i].sev0], 1, Len(projs)), n)

\* round(sev_proj_sum / n, 2), in hundredths; the sum is kept as whole
\* hundredths plus a remainder, so that it stays within the integers of
\* the model for as many records as the fetch returns
AvgProjected(projs, n) ==
  LET d == ProjDen \div 100
      whole == SumRange([i \in 1..Len(projs) |-> projs[i].sev_proj \div d],
                        1, Len(projs))
      rest == SumRange([i \in 1..Len(projs) |-> projs[i].sev_proj % d],
                       1, Len(projs))
      w == whole + (rest \div d)
      q == w \div n
      r == ((w % n) * d) + (rest % d)
  IN IF 2 * r > n * d THEN q + 1
     ELSE IF 2 * r < n * d THEN q
     ELSE IF q % 2 = 0 THEN q ELSE q + 1

\* ProjectionTools.project_worsening(hazard_id, location, horizon_days,
\*                                   precip_mm, freeze_thaw_cycles)
project_worsening(rows, hazard_id, location, horizon_days, precip_mm, freeze_thaw_cycles, now) ==
  LET weather_mult == _weather_multiplier(precip_mm, freeze_thaw_cycles)
      weeks == Weeks(horizon_days)
  IN IF ~Truthy(hazard_id) /\ ~Truthy(location) THEN
       Raises("ValueError", "Provide hazard_id or location", PyNone, <<>>)
     ELSE IF Truthy(hazard_id) THEN
       LET recs == StoreLimit(StoreEq(rows, "id", hazard_id), 1)
       IN IF Len(recs) = 0 THEN
            Raises("ValueError", "Hazard not found", hazard_id, <<ById(hazard_id)>>)
          ELSE IF SeverityRaises(recs[1]) THEN
            Raises("ValueError", "invalid literal for int()", recs[1].severity,
                   <<ById(hazard_id)>>)
          ELSE
            LET h == recs[1]
                pr == Projection(h, weeks, weather_mult)
            IN Returns(
                 [mode |-> "hazard",
                  hazard_id |-> hazard_id,
                  horizon_days |-> horizon_days,
                  inputs |->
                    [severity_now |-> pr.sev0,
                     progression_per_week |-> pr.p,
                     weather_multiplier |-> 5 * weather_mult,
                     age_days |-> AgeDays(h.created_at, now)],
                  projection |->
                    [projected_severity |-> Round2(pr.sev_proj, ProjDen \div 100),
                     risk_note |-> "Type-aware heuristic using severity & optional weather.",
                     recommended_action_window_days |-> ActionWindow(pr.sev_proj)]],
                 <<ById(hazard_id)>>)
     ELSE
       LET fetched == StoreLimit(StoreEq(rows, "location", location), FetchCap)
           q == [select |-> "*", eq |-> location, limit |-> FetchCap]
       IN IF Len(fetched) = 0 THEN
            Returns([mode |-> "area", location |-> location,
                     horizon_days |-> horizon_days,
                     projection |-> "no hazards found"], <<q>>)
          ELSE IF \E i \in 1..Len(fetched) :
                    SeverityRaises(fetched[i]) THEN
            LET i == CHOOSE j \in 1..Len(fetched) :
                       /\ SeverityRaises(fetched[j])
                       /\ \A m \in 1..(j - 1) :
                            ~SeverityRaises(fetched[m])
            IN Raises("ValueError", "invalid literal for int()",
                      fetched[i].severity, <<q>>)
          ELSE
            LET projs == [i \in 1..Len(fetched) |->
                            Projection(fetched[i], weeks, weather_mult)]
                n == Max(1, Len(fetched))
                urgent == Cardinality({i \in 1..Len(fetched) :
                                         projs[i].sev_proj >= 7 * ProjDen})
                samples == [i \in 1..Min(SampleCap, Len(fetched)) |->
                              [id |-> fetched[i].id,
                               hazard_type |-> fetched[i].hazard_type,
                               severity_now |-> projs[i].sev0,
                               severity_projected |->
                                 Round2(projs[i].sev_proj, ProjDen \div 100)]]
            IN Returns(
                 [mode |-> "area",
                  location |-> location,
                  horizon_days |-> horizon_days,
                  inputs |->
                    [weather_multiplier |-> 5 * weather_mult,
                     freeze_thaw_cycles |-> freeze_thaw_cycles,
                     precip_mm |-> precip_mm],
                  summary |->
                    [hazard_count |-> Len(fetched),
                     avg_severity_now |-> AvgNow(projs, n),
                     avg_severity_projected |-> AvgProjected(projs, n),
                     urgent_count |-> urgent],
                  samples |-> samples],
                 <<q>>)

----------------------------------------------------------------------------
(* The rows the table may hold and the arguments callers pass.             *)

\* how far below 0 and above 10 a stored severity may lie; rows per table
SevBelow == 2
SevAbove == 2
MaxStore == 2

\* rows a large table holds beyond a cap of the area fetch
CapSlack == 1

\* entries a caller adds to one list of a plan it was handed
MaxEdits == 1

\* invocations in progress at the same time
NumCallers == 2

L_Elm == PyStr(<<"E","l","m"," ","S","t">>)
L_elm == PyStr(<<"e","l","m"," ","s","t">>)
L_Oak == PyStr(<<"O","a","k"," ","A","v","e">>)
L_Main == PyStr(<<"M","a","i","n"," ","R","d">>)

T_1 == PyStr(<<"2","0","2","4","-","0","1","-","0","5","T","1","0",":","0","0",":","0","0","Z">>)
T_2 == PyStr(<<"2","0","2","4","-","0","2","-","2","0","T","0","8",":","3","0",":","0","0","Z">>)

\* the id of the i-th row of the table
RECURSIVE Decimal(_)
Decimal(i) ==
  IF i < 10 THEN <<DigitChars[i + 1]>>
  ELSE Decimal(i \div 10) \o <<DigitChars[(i % 10) + 1]>>

IdOf(i) == PyStr(<<"h">> \o Decimal(i))
UnknownId == PyStr(<<"h", "x">>)

KnownTypes == {PyStr(S_pothole), PyStr(S_flooding), PyStr(S_debris),
               PyStr(S_damaged_signage)}

\* hazard_type values: absent, empty, known names in several letter cases,
\* known names with surrounding whitespace, and unknown names
TypePool ==
  KnownTypes \cup
  {PyNone, PyStr(<<>>),
   PyStr(<<"P","o","t","h","o","l","e">>), PyStr(<<"F","L","O","O","D","I","N","G">>), PyStr(<<"D","e","b","r","i","s">>),
   PyStr(<<"D","a","m","a","g","e","d","_","S","i","g","n","a","g","e">>),
   PyStr(<<" ","d","e","b","r","i","s"," ">>), PyStr(<<"p","o","t","h","o","l","e"," ">>), PyStr(<<"c","r","a","c","k">>),
   PyStr(<<"S","I","N","K","H","O","L","E">>)}

\* severity values: absent, integers around 0..10, numeric and non-numeric text
SevInts == (0 - SevBelow)..(10 + SevAbove)
SevPool ==
  {PyInt(n) : n \in SevInts} \cup {PyNone, PyStr(<<"h","i","g","h">>), PyStr(<<"7">>)}

CreatedPool ==
  {PyNone, T_1, T_2,
   PyStr(<<"2","0","2","4","-","0","1","-","0","5","T","1","0",":","0","0",":","0","0","+","0","2",":","0","0">>), PyStr(<<"2","0","2","4","-","0","1","-","0","5","T","1","0",":","0","0",":","0","0",".","1","2","3","4","5","6","+","0","0",":","0","0">>), PyStr(<<"2","0","2","4","-","0","1","-","0","5","T","1","0",":","0","0",":","0","0">>), PyStr(<<"2","0","2","4","-","0","1","-","0","5">>),
   PyStr(<<"l","a","s","t"," ","w","e","e","k">>), PyInt(20240105)}

DescriptionPool ==
  {PyNone, PyStr(<<"d","e","e","p"," ","h","o","l","e">>), PyStr([i \in 1..150 |-> "x"])}

ImagesPool == {PyNone, PyList(<<>>), PyList(<<"a.jpg", "b.jpg">>)}

Row(i, type, sev, loc, created, desc, images, status) ==
  [id |-> IdOf(i), hazard_type |-> type, severity |-> sev, location |-> loc,
   status |-> status, description |-> desc, images |-> images,
   created_at |-> created]

\* one-row tables: every known type with every severity, and every type
\* spelling with a few severities
TypeSeverityStores ==
  {<<Row(1, ty, sv, L_Elm, T_1, PyNone, PyNone, "open")>> :
     ty \in KnownTypes, sv \in SevPool}
  \cup
  {<<Row(1, ty, sv, L_Elm, T_1, PyNone, PyNone, "open")>> :
     ty \in TypePool, sv \in {PyNone, PyInt(0), PyInt(3), PyInt(8)}}

\* one-row tables varying the optional fields
OptionalFieldStores ==
  {<<Row(1, PyStr(S_pothole), PyInt(5), L_Elm, cr, PyNone, PyNone, "open")>> :
     cr \in CreatedPool}
  \cup
  {<<Row(1, PyStr(S_debris), PyInt(5), L_Oak, T_1, de, im, "resolved")>> :
     de \in DescriptionPool, im \in ImagesPool}

\* the rows of the multi-row tables, without their ids
Templates ==
  {[location |-> L_Elm, severity |-> PyInt(8), created_at |-> T_1, status |-> "open"],
   [location |-> L_Elm, severity |-> PyInt(8), created_at |-> T_2, status |-> "resolved"],
   [location |-> L_Elm, severity |-> PyInt(2), created_at |-> T_1, status |-> "open"],
   [location |-> L_Elm, severity |-> PyNone, created_at |-> T_2, status |-> "open"],
   [location |-> L_Elm, severity |-> PyInt(8), created_at |-> PyNone, status |-> "open"],
   [location |-> L_Oak, severity |-> PyInt(8), created_at |-> T_1, status |-> "resolved"],
   [location |-> L_elm, severity |-> PyInt(9), created_at |-> T_1, status |-> "open"]}

\* every table of at most MaxStore rows over the templates
MultiRowStores ==
  UNION {{[i \in 1..n |->
             Row(i, PyStr(S_pothole), f[i].severity, f[i].location,
                 f[i].created_at, PyNone, PyNone, f[i].status)] :
           f \in [1..n -> Templates]} : n \in 0..MaxStore}

Stores == TypeSeverityStores \cup OptionalFieldStores \cup MultiRowStores

\* large tables: one record at "Oak Ave" followed by n records at "Main Rd"
\* whose types and severities cycle, n around the caps of the area fetch
LargeTypes == <<S_pothole, S_flooding, S_debris, S_damaged_signage>>

LargeRow(i) ==
  Row(i, PyStr(LargeTypes[(i % 4) + 1]), PyInt(i % 11), L_Main, T_1, PyNone,
      PyNone, "open")

LargeStore(n) ==
  [i \in 1..(n + 1) |->
     IF i = 1
       THEN Row(1, PyStr(S_pothole), PyInt(9), L_Oak, T_2, PyNone, PyNone, "open")
       ELSE LargeRow(i)]

LargeSizes == {SampleCap, SampleCap + CapSlack, FetchCap, FetchCap + CapSlack}

AreaStores == MultiRowStores \cup {LargeStore(n) : n \in LargeSizes}

KindArgs ==
  {PyStr(K_area_with_most_hazards), PyStr(K_top_severe_in_area),
   PyStr(K_counts_by_type), PyStr(K_open_vs_resolved),
   PyStr(<<"T","o","p","_","S","e","v","e","r","e","_","I","n","_","A","r","e","a">>), PyStr(<<"w","o","r","s","t","_","a","r","e","a">>), PyStr(<<>>), PyNone}

LocationArgs == {PyNone, PyStr(<<>>), L_Elm, L_elm, L_Oak, PyStr(<<"l", "m">>)}

LimitArgs == {1, 2, 10}

\* the argument tuples of query_hazards: every kind spelling that names a
\* kind with every location and limit, the others with the defaults
QueryArgs ==
  {[kind |-> k, location |-> loc, limit |-> lim] :
     k \in {PyStr(K_area_with_most_hazards), PyStr(K_top_severe_in_area),
            PyStr(K_counts_by_type), PyStr(K_open_vs_resolved), PyStr(<<"T","o","p","_","S","e","v","e","r","e","_","I","n","_","A","r","e","a">>)},
     loc \in LocationArgs, lim \in LimitArgs}
  \cup
  {[kind |-> k, location |-> loc, limit |-> 10] :
     k \in KindArgs, loc \in {PyNone, L_Elm}}
  \cup
  {[kind |-> PyStr(K_top_severe_in_area), location |-> L_Elm, limit |-> 0]}

HazardIdArgs == {IdOf(1), UnknownId}

HorizonArgs == {0 - 7, 0, 30, 90}
PrecipArgs == {0 - 100, 0, 50, 400}
FreezeThawArgs == {0 - 2, 0, 3, 12}

\* datetime.now(timezone.utc) at the call: 2024-03-01 09:00 and 2024-01-05 09:00
NowArgs == {[day |-> ToOrdinal(2024, 3, 1), sec |-> 32400],
            [day |-> ToOrdinal(2024, 1, 5), sec |-> 32400]}
Now1 == [day |-> ToOrdinal(2024, 3, 1), sec |-> 32400]

Args(hazard_id, location, horizon_days, precip_mm, freeze_thaw_cycles, now) ==
  [hazard_id |-> hazard_id, location |-> location, horizon_days |-> horizon_days,
   precip_mm |-> precip_mm, freeze_thaw_cycles |-> freeze_thaw_cycles, now |-> now]

\* the argument tuples of project_worsening: single-hazard calls over every
\* horizon and weather, area calls over every location, calls with neither
ProjectArgs ==
  {Args(id, PyNone, hd, pm, ft, Now1) :
     id \in HazardIdArgs, hd \in HorizonArgs, pm \in PrecipArgs, ft \in FreezeThawArgs}
  \cup
  {Args(id, loc, 30, 0, 0, now) :
     id \in HazardIdArgs, loc \in {PyNone, L_Elm}, now \in NowArgs}
  \cup
  {Args(PyNone, loc, w[1], w[2], w[3], Now1) :
     loc \in LocationArgs,
     w \in {<<30, 0, 0>>, <<90, 50, 3>>, <<90, 0, 0>>, <<0, 400, 12>>,
            <<0 - 7, 0 - 100, 0 - 2>>}}
  \cup
  {Args(PyStr(<<>>), loc, 30, 0, 0, Now1) : loc \in {PyNone, PyStr(<<>>), L_Elm}}
  \cup
  {Args(IdOf(2), L_Oak, 30, 0, 0, Now1)}
  \cup
  {Args(IdOf(1), PyNone, 3, 0, 7, Now1)}
  \cup
  {Args(PyNone, L_Main, w[1], w[2], w[3], Now1) :
     w \in {<<30, 0, 0>>, <<90, 50, 3>>}}

----------------------------------------------------------------------------
(* The state machine: the table is fixed by the environment; a caller      *)
(* invokes one tool, the tool returns or raises, the caller takes the      *)
(* outcome.                                                                *)

NoCall == [tool |-> "none"]
NoResult == [kind |-> "none"]

\* the tables as the module builds them when it is loaded
StaticTables ==
  [HAZARD_PROFILES |-> HAZARD_PROFILES, TYPE_WORSENING |-> TYPE_WORSENING]

Init ==
  /\ store \in Stores
  /\ pc = "idle"
  /\ call = NoCall
  /\ result = NoResult
  /\ queries = <<>>
  /\ tables = StaticTables

QueryHazards ==
  /\ pc = "idle"
  /\ \E a \in QueryArgs :
       LET out == query_hazards(store, a.kind, a.location, a.limit)
       IN /\ call' = [tool |-> "query_hazards", kind |-> a.kind,
                      location |-> a.location, limit |-> a.limit]
          /\ result' = out.result
          /\ queries' = out.queries
  /\ pc' = "returned"
  /\ UNCHANGED <<store, tables>>

EstimateRepairPlan ==
  /\ pc = "idle"
  /\ \E hazard_id \in HazardIdArgs :
       LET out == estimate_repair_plan(store, hazard_id)
       IN /\ call' = [tool |-> "estimate_repair_plan", hazard_id |-> hazard_id]
          /\ result' = out.result
          /\ queries' = out.queries
  /\ pc' = "returned"
  /\ UNCHANGED <<store, tables>>

ProjectWorsening ==
  /\ pc = "idle"
  /\ \E a \in ProjectArgs :
       LET out == project_worsening(store, a.hazard_id, a.location, a.horizon_days,
                                    a.precip_mm, a.freeze_thaw_cycles, a.now)
       IN /\ call' = [tool |-> "project_worsening", args |-> a]
          /\ result' = out.result
          /\ queries' = out.queries
  /\ pc' = "returned"
  /\ UNCHANGED <<store, tables>>

\* the caller takes the outcome; nothing of the call is retained
Return ==
  /\ pc = "returned"
  /\ pc' = "idle"
  /\ call' = NoCall
  /\ result' = NoResult
  /\ queries' = <<>>
  /\ UNCHANGED <<store, tables>>

Next == QueryHazards \/ EstimateRepairPlan \/ ProjectWorsening \/ Return

Spec == Init /\ [][Next]_vars

\* project_worsening over tables as large as the caps of its area fetch
InitArea ==
  /\ store \in AreaStores
  /\ pc = "idle"
  /\ call = NoCall
  /\ result = NoResult
  /\ queries = <<>>
  /\ tables = StaticTables

NextArea == ProjectWorsening \/ Return

SpecArea == InitArea /\ [][NextArea]_vars

----------------------------------------------------------------------------
(* A caller in the same process (one that calls the tool functions         *)
(* directly) is handed the very objects the tool returned.                 *)

\* the lists of a plan built for record h that are list objects of
\* HAZARD_PROFILES themselves: "crew": prof["crew"] and
\* "tools_materials": prof["materials"]; plan_steps is built anew
PlanShares(h) ==
  {[of_plan |-> "crew", key |-> ProfileKey(h.hazard_type), of_profile |-> "crew"],
   [of_plan |-> "tools_materials", key |-> ProfileKey(h.hazard_type),
    of_profile |-> "materials"]}

\* the list of the built-in profile a list of the plan is derived from
ProfileField(list) ==
  CASE list = "crew" -> "crew"
    [] list = "tools_materials" -> "materials"
    [] list = "plan_steps" -> "steps"

\* what the caller appends to a list of the plan
EditItem(list, plan) ==
  CASE list = "crew" -> [role |-> "Inspector", count |-> 1]
    [] list = "tools_materials" -> "Drone"
    [] list = "plan_steps" ->
         [step |-> Len(plan.plan_steps) + 1, name |-> "Inspect", duration_hr |-> 15]

\* the caller appends an entry to a list of the plan it was handed; a list
\* object shared with HAZARD_PROFILES grows there too
CallerEditsPlan ==
  /\ pc = "returned"
  /\ call.tool = "estimate_repair_plan"
  /\ result.kind = "ok"
  /\ \E list \in {"crew", "tools_materials", "plan_steps"} :
       LET plan == result.value.repair_plan
           h == result.value.hazard
           shared == {sh \in PlanShares(h) : sh.of_plan = list}
           item == EditItem(list, plan)
       IN /\ Len(plan[list])
               < Len(HAZARD_PROFILES[ProfileKey(h.hazard_type)][ProfileField(list)])
                   + MaxEdits
          /\ result' = [result EXCEPT !.value.repair_plan[list] = Append(@, item)]
          /\ tables' =
               IF shared = {} THEN tables
               ELSE LET sh == CHOOSE x \in shared : TRUE
                    IN [tables EXCEPT
                          !.HAZARD_PROFILES[sh.key][sh.of_profile] = Append(@, item)]
  /\ UNCHANGED <<store, pc, call, queries>>

NextInProcess == Next \/ CallerEditsPlan

SpecInProcess == Init /\ [][NextInProcess]_vars

----------------------------------------------------------------------------
(* Invocations in progress at the same time.  Each invocation first has    *)
(* its query answered by the store and later computes its result from the  *)
(* rows it holds; between the two, other invocations run and other systems *)
(* write the table.  pc, call, result and queries hold one entry per        *)
(* caller.                                                                 *)

Callers == 1..NumCallers

ConcurrentStores ==
  {<<Row(1, PyStr(S_pothole), PyInt(5), L_Elm, T_1, PyNone, PyNone, "open")>>,
   <<Row(1, PyStr(S_debris), PyInt(8), L_Elm, T_2, PyNone, PyNone, "open")>>,
   <<Row(1, PyStr(S_pothole), PyInt(5), L_Elm, T_1, PyNone, PyNone, "open"),
     Row(2, PyStr(S_flooding), PyInt(9), L_Elm, T_2, PyNone, PyNone, "resolved")>>}

ConcurrentCalls ==
  {[tool |-> "query_hazards", kind |-> PyStr(K_top_severe_in_area),
    location |-> L_Elm, limit |-> 10],
   [tool |-> "estimate_repair_plan", hazard_id |-> IdOf(1)],
   [tool |-> "project_worsening", args |-> Args(IdOf(1), PyNone, 30, 0, 0, Now1)],
   [tool |-> "project_worsening", args |-> Args(PyNone, L_Elm, 30, 0, 0, Now1)]}

\* the tool function of an invocation k applied to table rows
Invoke(rows, k) ==
  CASE k.tool = "query_hazards" ->
         query_hazards(rows, k.kind, k.location, k.limit)
    [] k.tool = "estimate_repair_plan" ->
         estimate_repair_plan(rows, k.hazard_id)
    [] k.tool = "project_worsening" ->
         project_worsening(rows, k.args.hazard_id, k.args.location,
                           k.args.horizon_days, k.args.precip_mm,
                           k.args.freeze_thaw_cycles, k.args.now)

\* the rows an invocation computes from, read from the table anew
RowsRead_current(c) == store

\* the rows an invocation computes from: the answer to its query, held in
\* a local of the handler (recs, rows, q.execute().data)
RowsRead(c) == call[c].rows

InitConcurrent ==
  /\ store \in ConcurrentStores
  /\ pc = [c \in Callers |-> "idle"]
  /\ call = [c \in Callers |-> NoCall]
  /\ result = [c \in Callers |-> NoResult]
  /\ queries = [c \in Callers |-> <<>>]
  /\ tables = StaticTables

\* a caller invokes a tool and the store answers its query
ConcurrentBegin(c) ==
  /\ pc[c] = "idle"
  /\ \E k \in ConcurrentCalls :
       call' = [call EXCEPT ![c] = [rows |-> store] @@ k]
  /\ pc' = [pc EXCEPT ![c] = "fetched"]
  /\ UNCHANGED <<store, result, queries, tables>>

\* the handler reads the clock where it needs it, computes and returns
ConcurrentFinish(c) ==
  /\ pc[c] = "fetched"
  /\ \E now \in (IF call[c].tool = "project_worsening" THEN NowArgs ELSE {Now1}) :
       LET k == IF call[c].tool = "project_worsening"
                  THEN [call[c] EXCEPT !.args.now = now]
                  ELSE call[c]
           out == Invoke(RowsRead(c), k)
       IN /\ call' = [call EXCEPT ![c] = k]
          /\ result' = [result EXCEPT ![c] = out.result]
          /\ queries' = [queries EXCEPT ![c] = out.queries]
  /\ pc' = [pc EXCEPT ![c] = "returned"]
  /\ UNCHANGED <<store, tables>>

\* the caller takes the outcome
ConcurrentReturn(c) ==
  /\ pc[c] = "returned"
  /\ pc' = [pc EXCEPT ![c] = "idle"]
  /\ call' = [call EXCEPT ![c] = NoCall]
  /\ result' = [result EXCEPT ![c] = NoResult]
  /\ queries' = [queries EXCEPT ![c] = <<>>]
  /\ UNCHANGED <<store, tables>>

\* another system writes the table
StoreChanges ==
  /\ store' \in ConcurrentStores \ {store}
  /\ UNCHANGED <<pc, call, result, queries, tables>>

NextConcurrent ==
  \/ StoreChanges
  \/ \E c \in Callers :
       ConcurrentBegin(c) \/ ConcurrentFinish(c) \/ ConcurrentReturn(c)

SpecConcurrent == InitConcurrent /\ [][NextConcurrent]_vars

----------------------------------------------------------------------------
(* What a returned call shows.                                             *)

Returned(tool) == pc = "returned" /\ call.tool = tool

PlanReturned == Returned("estimate_repair_plan") /\ result.kind = "ok"

HazardProjReturned ==
  /\ Returned("project_worsening")
  /\ result.kind = "ok"
  /\ result.value.mode = "hazard"

AreaProjReturned ==
  /\ Returned("project_worsening")
  /\ result.kind = "ok"
  /\ result.value.mode = "area"
  /\ "samples" \in DOMAIN result.value

\* a single-hazard call of project_worsening, whatever its outcome
HazardProjCalled == Returned("project_worsening") /\ Truthy(call.args.hazard_id)

Found(id) == \E i \in 1..Len(store) : store[i].id = id
RowOf(id) == store[CHOOSE i \in 1..Len(store) : store[i].id = id]

Clamp10(n) == Max(0, Min(10, n))

----------------------------------------------------------------------------
(* C1 *)

\* C1: every projected severity project_worsening reports, in single-hazard
\* mode and per record in area mode, satisfies 0 <= projected_severity <= 10,
\* for any stored severity, hazard_type, horizon_days, precip_mm and
\* freeze_thaw_cycles.
C1_ProjectedSeverityInRange ==
  /\ HazardProjReturned =>
       result.value.projection.projected_severity \in 0..1000
  /\ AreaProjReturned =>
       \A i \in 1..Len(result.value.samples) :
         result.value.samples[i].severity_projected \in 0..1000

----------------------------------------------------------------------------
(* C2 *)

\* the severity the claim gives a record: clamped into [0,10], 3 when absent
\* or non-numeric
C2_ClaimedSeverity(x) ==
  IF x.t = "int" THEN Clamp10(x.v)
  ELSE IF x.t = "str" /\ ~IntRaises(x) THEN Clamp10(IntOf(x))
  ELSE 3

\* C2: the severity reported by plan building (assumptions.severity) and by
\* projection (severity_now) is the record's severity clamped into [0,10],
\* 3 when the record's severity is absent, and 3 rather than an error when
\* it is non-numeric.
C2_SeverityClampedBeforeUse ==
  /\ (Returned("estimate_repair_plan") /\ Found(call.hazard_id)) =>
       /\ result.kind = "ok"
       /\ result.value.repair_plan.assumptions.severity
            = C2_ClaimedSeverity(RowOf(call.hazard_id).severity)
  /\ (HazardProjCalled /\ Found(call.args.hazard_id)) =>
       /\ result.kind = "ok"
       /\ result.value.inputs.severity_now
            = C2_ClaimedSeverity(RowOf(call.args.hazard_id).severity)
  /\ AreaProjReturned =>
       \A i \in 1..Len(result.value.samples) :
         result.value.samples[i].severity_now
           = C2_ClaimedSeverity(RowOf(result.value.samples[i].id).severity)

----------------------------------------------------------------------------
(* C3 *)

C3_DebrisZero(h) == h.hazard_type = PyStr(S_debris) /\ h.severity = PyInt(0)

\* C3: for a record with hazard_type "debris" and severity 0,
\* estimate_repair_plan uses scale 0.6, and project_worsening with default
\* weather uses weekly_rate 0 and returns projected_severity 0 for every
\* horizon_days.
C3_DebrisSeverityZero ==
  /\ (Returned("estimate_repair_plan") /\ Found(call.hazard_id)
        /\ C3_DebrisZero(RowOf(call.hazard_id))) =>
       /\ result.kind = "ok"
       /\ result.value.repair_plan.assumptions.scaling = 60
  /\ (HazardProjCalled /\ Found(call.args.hazard_id)
        /\ C3_DebrisZero(RowOf(call.args.hazard_id))
        /\ call.args.precip_mm = 0 /\ call.args.freeze_thaw_cycles = 0) =>
       /\ result.kind = "ok"
       /\ result.value.inputs.progression_per_week = 0
       /\ result.value.projection.projected_severity = 0

----------------------------------------------------------------------------
(* C4 *)

\* the key the claim resolves a hazard_type to: a known name in any letter
\* case is that name, anything else is unrecognized (<<>>)
C4_KnownKey(ty) ==
  LET t == IF ty.t = "str" THEN StrLower(ty.v) ELSE <<>>
  IN IF t \in DOMAIN HAZARD_PROFILES THEN t ELSE <<>>

C4_ClaimedProfile(ty) ==
  IF C4_KnownKey(ty) = <<>> THEN HAZARD_PROFILES[S_pothole]
  ELSE HAZARD_PROFILES[C4_KnownKey(ty)]

C4_ClaimedMultiplier(ty) ==
  IF C4_KnownKey(ty) = <<>> THEN 110 ELSE TYPE_WORSENING[C4_KnownKey(ty)]

\* C4: every hazard_type value resolves to a profile and a multiplier: a
\* known type in any letter case to its own profile and its own multiplier
\* (1.40, 1.25, 0.85, 0.75), an unrecognized, empty or absent type to the
\* pothole profile in plan building and to multiplier 1.10 in progression.
C4_TypeResolution ==
  /\ PlanReturned =>
       LET prof == C4_ClaimedProfile(result.value.hazard.hazard_type)
           plan == result.value.repair_plan
       IN /\ plan.crew = prof.crew
          /\ plan.tools_materials = prof.materials
          /\ Len(plan.plan_steps) = Len(prof.steps)
          /\ \A i \in 1..Len(prof.steps) : plan.plan_steps[i].name = prof.steps[i]
  /\ HazardProjReturned =>
       result.value.inputs.progression_per_week
         = Min(2500, 2 * Clamp10(result.value.inputs.severity_now)
                       * C4_ClaimedMultiplier(RowOf(call.args.hazard_id).hazard_type))

----------------------------------------------------------------------------
(* C5 *)

\* the claim's scale and subtotal for a built-in profile and a severity:
\* scale in hundredths, subtotal in 1e-4 currency units
C5_Scale(s) == Max(60, Min(300, 60 + 25 * Clamp10(s)))

C5_Subtotal(prof, s) ==
  LET scale == C5_Scale(s)
      hours == prof.base_hours * scale
  IN prof.material_baseline * (6000 + 40 * scale)
       + prof.labor_hourly * hours * 10
       + prof.equipment_hourly * Max(6000, 5 * hours)
       + prof.traffic_ctrl_hourly * Max(5000, 6 * hours)
       + 1200000

C5_BuiltIn(h) == h.hazard_type \in KnownTypes /\ h.severity.t = "int"

C5_Costs(h, plan) ==
  LET sub == C5_Subtotal(HAZARD_PROFILES[h.hazard_type.v], h.severity.v)
  IN /\ plan.costs.total_estimate = Round2(127 * sub, 10000)
     /\ plan.costs.contingency_12pct = Round2(12 * sub, 10000)
     /\ plan.costs.overhead_profit_15pct = Round2(15 * sub, 10000)
     /\ (h.hazard_type.v = S_pothole /\ h.severity.v = 8) =>
          (sub = 9179000 /\ plan.costs.total_estimate = 116573)

\* C5: for every built-in profile and every severity 0..10, total_estimate
\* = round(1.27 x subtotal, 2) with subtotal = material_baseline x (0.6 +
\* 0.4 x scale) + labor_hourly x hours + equipment_hourly x max(0.6, 0.5 x
\* hours) + traffic_ctrl_hourly x max(0.5, 0.6 x hours) + 120, hours =
\* base_hours x scale, contingency = 0.12 x subtotal, overhead_profit =
\* 0.15 x subtotal; a pothole of severity 8 gives 917.9 and 1165.73.
C5_TotalEstimate ==
  (PlanReturned /\ C5_BuiltIn(result.value.hazard)
     /\ result.value.hazard.severity.v \in 0..10) =>
    C5_Costs(result.value.hazard, result.value.repair_plan)

\* C5, for the severities 1..10 only: the costs of the claim hold there
C5_TotalEstimateFromSeverityOne ==
  (PlanReturned /\ C5_BuiltIn(result.value.hazard)
     /\ result.value.hazard.severity.v \in 1..10) =>
    C5_Costs(result.value.hazard, result.value.repair_plan)

----------------------------------------------------------------------------
(* C6 *)

\* C6: for every integer severity s, below 0 and above 10 included,
\* _severity_scale(s) lies in [0.6, 3.0], equals 0.6 + 0.25 x clamp(s,0,10)
\* clamped to that range, and is non-decreasing in s; every plan reports
\* the scale of the severity it reports.
C6_SeverityScale ==
  PlanReturned =>
    LET a == result.value.repair_plan.assumptions
    IN /\ a.scaling \in 60..300
       /\ a.scaling = Max(60, Min(300, 60 + 25 * Clamp10(a.severity)))
       /\ \A s \in SevInts :
            /\ _severity_scale(s) \in 60..300
            /\ _severity_scale(s) = Max(60, Min(300, 60 + 25 * Clamp10(s)))
            /\ s <= a.severity => _severity_scale(s) <= a.scaling
            /\ s >= a.severity => _severity_scale(s) >= a.scaling

\* a plan for a severity above 10, scaled at the cap 3.0
C6_Witness ==
  /\ PlanReturned
  /\ result.value.repair_plan.assumptions.severity > 10
  /\ result.value.repair_plan.assumptions.scaling = 300

----------------------------------------------------------------------------
(* C7 *)

C7_Reported ==
  /\ Returned("project_worsening")
  /\ result.kind = "ok"
  /\ "inputs" \in DOMAIN result.value

----------------------------------------------------------------------------
(* C8 *)

\* the hours of a returned plan, in thousandths
C8_Hours ==
  PlanHours(_get_profile(result.value.hazard.hazard_type),
            result.value.repair_plan.assumptions.scaling)

\* C8: in every repair plan all steps carry the same duration
\* round(max(0.15, hours / count(steps)), 2); when hours >= 0.15 x count the
\* durations sum to hours up to 0.005 per step, otherwise every step has
\* duration exactly 0.15.
C8_StepDurations ==
  PlanReturned =>
    LET steps == result.value.repair_plan.plan_steps
        n == Len(steps)
        d == steps[1].duration_hr
    IN /\ n > 0
       /\ \A i \in 1..n : steps[i].duration_hr = d
       /\ C8_Hours >= 150 * n =>
            /\ 10 * n * d - C8_Hours <= 5 * n
            /\ C8_Hours - 10 * n * d <= 5 * n
       /\ C8_Hours < 150 * n => d = 15

\* a plan whose hours exceed the floor and whose rounded step durations do
\* not sum to the hours exactly
C8_Witness ==
  /\ PlanReturned
  /\ C8_Hours >= 150 * Len(result.value.repair_plan.plan_steps)
  /\ 10 * Len(result.value.repair_plan.plan_steps)
       * result.value.repair_plan.plan_steps[1].duration_hr # C8_Hours

\* a plan whose steps are floored at 0.15
C8_WitnessFloor ==
  /\ PlanReturned
  /\ C8_Hours < 150 * Len(result.value.repair_plan.plan_steps)
  /\ result.value.repair_plan.plan_steps[1].duration_hr = 15

----------------------------------------------------------------------------
(* C9 *)

\* needle occurs in hay, letter case ignored
ContainsCI(hay, needle) ==
  \E i \in 0..(Len(hay) - Len(needle)) :
    SubSeq(StrLower(hay), i + 1, i + Len(needle)) = StrLower(needle)

KindIs(k) ==
  Returned("query_hazards") /\ StrLower(PyOr(call.kind, PyStr(<<>>)).v) = k

\* the locations the claim has the query consider
C9_Considered ==
  {store[i].location : i \in
     {j \in 1..Len(store) :
        \/ ~Truthy(call.location)
        \/ /\ store[j].location.t = "str"
           /\ ContainsCI(store[j].location.v, call.location.v)}}

C9_CountAt(loc) == Cardinality({i \in 1..Len(store) : store[i].location = loc})

\* C9: query_hazards with kind area_with_most_hazards returns the top
\* `limit` locations ordered by hazard count descending, considering only
\* the locations that contain `location` as a case-insensitive substring
\* when it is given.
C9_AreaWithMostHazards ==
  KindIs(K_area_with_most_hazards) =>
    /\ result.kind = "ok"
    /\ LET rows == result.value.result
       IN /\ Len(rows) = Min(call.limit, Cardinality(C9_Considered))
          /\ \A i \in 1..Len(rows) :
               /\ rows[i].key \in C9_Considered
               /\ rows[i].count = C9_CountAt(rows[i].key)
          /\ \A i, j \in 1..Len(rows) :
               i < j => (rows[i].count >= rows[j].count /\ rows[i].key # rows[j].key)
          /\ \A loc \in C9_Considered :
               (\A i \in 1..Len(rows) : rows[i].key # loc) =>
                 \A i \in 1..Len(rows) : rows[i].count >= C9_CountAt(loc)

----------------------------------------------------------------------------
(* C10 *)

C10_Matching == {i \in 1..Len(store) : store[i].location = call.location}

\* C10: query_hazards with kind top_severe_in_area raises a validation error
\* without querying the store when location is absent or empty; otherwise
\* it returns at most `limit` full records whose location equals the
\* argument exactly, the most severe first, ties ordered by created_at
\* descending.
C10_TopSevereInArea ==
  KindIs(K_top_severe_in_area) =>
    IF ~Truthy(call.location)
    THEN /\ result.kind = "error"
         /\ result.type = "ValueError"
         /\ result.msg = "location is required for top_severe_in_area"
         /\ queries = <<>>
    ELSE /\ result.kind = "ok"
         /\ Len(queries) = 1
         /\ LET rows == result.value.result
            IN /\ Len(rows) <= call.limit
               /\ Len(rows) = Min(call.limit, Cardinality(C10_Matching))
               /\ \A i \in 1..Len(rows) :
                    /\ rows[i].location = call.location
                    /\ \E m \in C10_Matching : store[m] = rows[i]
               /\ \A i, j \in 1..Len(rows) :
                    i < j =>
                      /\ rows[i].id # rows[j].id
                      /\ (rows[i].severity.t = "int" /\ rows[j].severity.t = "int") =>
                           rows[i].severity.v >= rows[j].severity.v
                      /\ (rows[i].severity = rows[j].severity
                            /\ rows[i].created_at.t = "str"
                            /\ rows[j].created_at.t = "str") =>
                           ~StrLess(rows[i].created_at.v, rows[j].created_at.v)
               /\ \A m \in C10_Matching :
                    (\A i \in 1..Len(rows) : rows[i].id # store[m].id) =>
                      \A i \in 1..Len(rows) :
                        (rows[i].severity.t = "int" /\ store[m].severity.t = "int") =>
                          rows[i].severity.v >= store[m].severity.v

\* two records of one severity returned in the order of their created_at,
\* against their order in the table
C10_Witness ==
  /\ KindIs(K_top_severe_in_area)
  /\ result.kind = "ok"
  /\ Len(result.value.result) = 2
  /\ result.value.result[1].severity = result.value.result[2].severity
  /\ result.value.result[1].id = IdOf(2)
  /\ result.value.result[2].id = IdOf(1)
  /\ result.value.result[1].created_at.t = "str"
  /\ result.value.result[2].created_at.t = "str"
  /\ StrLess(result.value.result[2].created_at.v, result.value.result[1].created_at.v)

----------------------------------------------------------------------------
(* C11 *)

C11_Kinds ==
  {K_area_with_most_hazards, K_top_severe_in_area, K_counts_by_type,
   K_open_vs_resolved}

C11_SameIgnoringCase(a, b) ==
  Len(a) = Len(b) /\ \A i \in 1..Len(a) : ToLowerChar(a[i]) = ToLowerChar(b[i])

\* the kinds a kind argument names when letter case is ignored
C11_Named(kind) ==
  IF kind.t = "str" THEN {k \in C11_Kinds : C11_SameIgnoringCase(kind.v, k)}
  ELSE {}

C11_UnknownKindMsg ==
  "Unknown kind. Use: area_with_most_hazards | top_severe_in_area | counts_by_type | open_vs_resolved"

\* C11: query_hazards dispatches on kind case-insensitively among exactly
\* four kinds: a kind argument naming one of them in any letter case is
\* served as that kind; any other kind value (empty and absent included)
\* raises a validation error whose message names all four valid kinds, and
\* no store query is issued.
C11_KindDispatch ==
  Returned("query_hazards") =>
    /\ \A k \in C11_Named(call.kind) :
         /\ result.kind = "ok" => result.value.question = k
         /\ result.kind = "error" =>
              /\ k = K_top_severe_in_area
              /\ result.msg = "location is required for top_severe_in_area"
    /\ C11_Named(call.kind) = {} =>
         /\ result.kind = "error"
         /\ result.type = "ValueError"
         /\ result.msg = C11_UnknownKindMsg
         /\ queries = <<>>

\* an unknown kind was refused
C11_Witness ==
  /\ Returned("query_hazards")
  /\ call.kind = PyStr(<<"w","o","r","s","t","_","a","r","e","a">>)
  /\ result.kind = "error"
  /\ Len(store) > 0

\* a kind written in mixed case was served
C11_WitnessMixedCase ==
  /\ Returned("query_hazards")
  /\ call.kind = PyStr(<<"T","o","p","_","S","e","v","e","r","e","_","I","n","_","A","r","e","a">>)
  /\ result.kind = "ok"
  /\ Len(result.value.result) > 0

----------------------------------------------------------------------------
(* C12 *)

\* an argument the caller supplied: neither absent nor empty
C12_Supplied(x) == x # PyNone /\ x # PyStr(<<>>)

\* C12: project_worsening raises a validation error, before any store query,
\* when neither hazard_id nor location is supplied; when hazard_id is
\* supplied and the store holds no record for it, it raises a not-found
\* error naming the id after the one query by id, and never queries by
\* location, even if location is supplied too.
C12_ProjectWorseningErrors ==
  Returned("project_worsening") =>
    /\ (~C12_Supplied(call.args.hazard_id) /\ ~C12_Supplied(call.args.location)) =>
         /\ result.kind = "error"
         /\ result.type = "ValueError"
         /\ result.msg = "Provide hazard_id or location"
         /\ queries = <<>>
    /\ (C12_Supplied(call.args.hazard_id) /\ ~Found(call.args.hazard_id)) =>
         /\ result.kind = "error"
         /\ result.msg = "Hazard not found"
         /\ result.about = call.args.hazard_id
         /\ Len(queries) = 1
         /\ queries[1].eq = call.args.hazard_id
         /\ queries[1].limit = 1

\* an unknown id was refused although the location named holds hazards
C12_Witness ==
  /\ Returned("project_worsening")
  /\ call.args.hazard_id = UnknownId
  /\ call.args.location = L_Elm
  /\ \E i \in 1..Len(store) : store[i].location = L_Elm
  /\ result.kind = "error"
  /\ result.about = UnknownId

\* a call with neither argument was refused
C12_WitnessNeither ==
  /\ Returned("project_worsening")
  /\ call.args.hazard_id = PyStr(<<>>)
  /\ call.args.location = PyNone
  /\ result.kind = "error"
  /\ queries = <<>>

----------------------------------------------------------------------------
(* C13 *)

C13_PlanKeys ==
  {"assumptions", "costs", "crew", "tools_materials", "plan_steps", "schedule",
   "context", "notes"}

\* C13: estimate_repair_plan fails only when the store has no record for
\* hazard_id, with an error naming the id; for every record the store can
\* return (any or absent hazard_type, severity, description, images) it
\* succeeds and returns the raw record together with a complete plan.
C13_EstimateRepairPlanTotal ==
  Returned("estimate_repair_plan") =>
    IF Found(call.hazard_id)
    THEN /\ result.kind = "ok"
         /\ result.value.hazard = RowOf(call.hazard_id)
         /\ DOMAIN result.value.repair_plan = C13_PlanKeys
    ELSE /\ result.kind = "error"
         /\ result.about = call.hazard_id

----------------------------------------------------------------------------
(* C14 *)

\* an area call: location given, no hazard_id
C14_AreaCalled ==
  /\ Returned("project_worsening")
  /\ ~C12_Supplied(call.args.hazard_id)
  /\ C12_Supplied(call.args.location)

\* C14: project_worsening in area mode (location given, no hazard_id), when
\* the store holds no record at exactly that location, returns a result with
\* mode "area" and projection "no hazards found", echoing location and
\* horizon_days, and raises no error.
C14_NoHazardsFound ==
  (C14_AreaCalled
     /\ \A i \in 1..Len(store) : store[i].location # call.args.location) =>
    /\ result.kind = "ok"
    /\ result.value = [mode |-> "area",
                       location |-> call.args.location,
                       horizon_days |-> call.args.horizon_days,
                       projection |-> "no hazards found"]

\* the location matched no record of a table that holds records elsewhere
C14_Witness ==
  /\ C14_AreaCalled
  /\ call.args.location = L_Oak
  /\ Len(store) > 0
  /\ \A i \in 1..Len(store) : store[i].location = L_Elm
  /\ result.kind = "ok"
  /\ result.value.projection = "no hazards found"

----------------------------------------------------------------------------
(* C15 *)

\* the records at the location of an area call, in table order, and how many
\* of them the fetch returns
C15_Matching == SelectSeq(store, LAMBDA r : r.location = call.args.location)
C15_n == IF Len(C15_Matching) > FetchCap THEN FetchCap ELSE Len(C15_Matching)

C15_Proj(i) ==
  Projection(C15_Matching[i], Weeks(call.args.horizon_days),
             _weather_multiplier(call.args.precip_mm, call.args.freeze_thaw_cycles))

\* C15: an area call of project_worsening that returns a summary over the n
\* records fetched for the location (n capped at 5000) returns
\* hazard_count = n, an urgent count equal to the number of fetched records
\* whose projected severity is >= 7, and samples that are exactly the
\* projections of the first min(50, n) records in fetch order; hence
\* urgent count <= hazard_count <= 5000 and len(samples) <= 50.
C15_AreaSummary ==
  AreaProjReturned =>
    LET summary == result.value.summary
        samples == result.value.samples
    IN /\ summary.hazard_count = C15_n
       /\ summary.urgent_count
            = Cardinality({i \in 1..C15_n : C15_Proj(i).sev_proj >= 7 * ProjDen})
       /\ Len(samples) = (IF C15_n > SampleCap THEN SampleCap ELSE C15_n)
       /\ \A i \in 1..Len(samples) :
            samples[i] =
              [id |-> C15_Matching[i].id,
               hazard_type |-> C15_Matching[i].hazard_type,
               severity_now |-> C15_Proj(i).sev0,
               severity_projected |->
                 Round2(C15_Proj(i).sev_proj, ProjDen \div 100)]
       /\ summary.urgent_count <= summary.hazard_count
       /\ summary.hazard_count <= 5000
       /\ Len(samples) <= 50

\* more records than the fetch cap lay at the location: both caps applied
C15_Witness ==
  /\ AreaProjReturned
  /\ Len(C15_Matching) > 5000
  /\ result.value.summary.hazard_count = 5000
  /\ Len(result.value.samples) = 50
  /\ result.value.summary.urgent_count > 0
  /\ result.value.summary.urgent_count < 5000

----------------------------------------------------------------------------
(* C16 *)

\* created_at is text that datetime.fromisoformat accepts once a Z is read
\* as +00:00, with or without a time zone
C16_ParsesIso(created_at) ==
  created_at.t = "str" /\ FromIso(ReplaceZ(created_at.v)).ok

\* the record with its created_at taken away
C16_WithoutCreatedAt(h) == [h EXCEPT !.created_at = PyNone]

\* C16: in single-hazard mode of project_worsening, whatever the record's
\* created_at holds (absent, malformed text, a timestamp without time zone,
\* a non-string), the call succeeds; age_days is a day count when created_at
\* parses as an ISO-8601 timestamp (a trailing Z read as UTC) and None
\* otherwise; the rest of the result is what the record gives without its
\* created_at.
C16_AgeDays ==
  (HazardProjCalled /\ Found(call.args.hazard_id)
     /\ ~SeverityRaises(RowOf(call.args.hazard_id))) =>
    LET h == RowOf(call.args.hazard_id)
        a == call.args
        bare == project_worsening(<<C16_WithoutCreatedAt(h)>>, a.hazard_id,
                                  a.location, a.horizon_days, a.precip_mm,
                                  a.freeze_thaw_cycles, a.now).result.value
    IN /\ result.kind = "ok"
       /\ C16_ParsesIso(h.created_at) => result.value.inputs.age_days.t = "int"
       /\ ~C16_ParsesIso(h.created_at) => result.value.inputs.age_days = PyNone
       /\ result.value.projection = bare.projection
       /\ [result.value.inputs EXCEPT !.age_days = PyNone] = bare.inputs

----------------------------------------------------------------------------
(* C19 *)

\* the projected severity of a returned single-hazard call before it is
\* rounded for the report, as a numerator over ProjDen
C19_Unrounded ==
  Projection(RowOf(call.args.hazard_id), Weeks(call.args.horizon_days),
             _weather_multiplier(call.args.precip_mm,
                                 call.args.freeze_thaw_cycles)).sev_proj

\* C19 as stated: in every single-hazard result of project_worsening,
\* recommended_action_window_days is 14 if the projected_severity reported in
\* that same result is >= 7, and 30 otherwise.
C19_WindowFromReported ==
  HazardProjReturned =>
    result.value.projection.recommended_action_window_days
      = (IF result.value.projection.projected_severity >= 700 THEN 14 ELSE 30)

\* C19 amended: in every single-hazard result of project_worsening,
\* recommended_action_window_days is 14 if the projected severity before its
\* rounding to two decimals is >= 7, and 30 otherwise; so a reported
\* projected_severity above 7.00 comes with 14, one below 7.00 with 30, and
\* a reported 7.00 with either.
C19_WindowFromUnrounded ==
  HazardProjReturned =>
    LET window == result.value.projection.recommended_action_window_days
        reported == result.value.projection.projected_severity
    IN /\ window = (IF C19_Unrounded >= 7 * ProjDen THEN 14 ELSE 30)
       /\ reported > 700 => window = 14
       /\ reported < 700 => window = 30

\* a result reporting projected_severity 7.00 with a window of 30 days
C19_Witness ==
  /\ HazardProjReturned
  /\ result.value.projection.projected_severity = 700
  /\ result.value.projection.recommended_action_window_days = 30
  /\ C19_Unrounded < 7 * ProjDen

----------------------------------------------------------------------------
(* C20 *)

\* a returned single-hazard call on a record of severity in [0,10] with
\* non-negative weather inputs
C20_Case ==
  /\ HazardProjReturned
  /\ RowOf(call.args.hazard_id).severity.t = "int"
  /\ RowOf(call.args.hazard_id).severity.v \in 0..10
  /\ call.args.precip_mm >= 0
  /\ call.args.freeze_thaw_cycles >= 0

\* the projected severity the same call reports for another horizon
C20_ReportedAt(horizon_days) ==
  project_worsening(store, call.args.hazard_id, call.args.location,
                    horizon_days, call.args.precip_mm,
                    call.args.freeze_thaw_cycles, call.args.now
                   ).result.value.projection.projected_severity

C20_WitnessGrowth ==
  /\ C20_Case
  /\ call.args.horizon_days = 90
  /\ C20_ReportedAt(30) < result.value.projection.projected_severity
  /\ C20_ReportedAt(0) < C20_ReportedAt(30)

----------------------------------------------------------------------------
(* C17 *)

\* a step in which estimate_repair_plan returns a plan
C17_PlanHandedOut ==
  /\ pc = "idle"
  /\ pc' = "returned"
  /\ call'.tool = "estimate_repair_plan"
  /\ result'.kind = "ok"

\* C17: across any sequence of tool invocations, successful or failing, and
\* of changes a caller makes to a plan it was handed (to its crew,
\* tools_materials or plan_steps list), HAZARD_PROFILES, TYPE_WORSENING and
\* the hazard records in the store stay as they were, and every plan handed
\* out later carries the crew and materials of the built-in profile.
C17_NothingRetained ==
  [][/\ store' = store
     /\ tables' = tables
     /\ C17_PlanHandedOut =>
          LET plan == result'.value.repair_plan
              prof == HAZARD_PROFILES[ProfileKey(result'.value.hazard.hazard_type)]
          IN /\ plan.crew = prof.crew
             /\ plan.tools_materials = prof.materials]_vars

----------------------------------------------------------------------------
(* C18 *)

\* two invocations, both returned, with the same tool and arguments that
\* read the same table contents
C18_SameInputs(c, d) ==
  /\ pc[c] = "returned" /\ pc[d] = "returned"
  /\ call[c].tool = call[d].tool
  /\ call[c].rows = call[d].rows
  /\ IF call[c].tool = "project_worsening"
       THEN [call[c].args EXCEPT !.now = Now1] = [call[d].args EXCEPT !.now = Now1]
       ELSE call[c] = call[d]

C18_SameClock(c, d) ==
  call[c].tool = "project_worsening" => call[c].args.now = call[d].args.now

\* a result with its age_days left out
C18_WithoutAge(r) ==
  IF r.kind = "ok" /\ "inputs" \in DOMAIN r.value
       /\ "age_days" \in DOMAIN r.value.inputs
  THEN [r EXCEPT !.value.inputs.age_days = PyNone]
  ELSE r

----------------------------------------------------------------------------
(* C21 *)

\* the durations of a returned plan's steps, summed, in hundredths
C21_StepsTotal ==
  LET steps == result.value.repair_plan.plan_steps
  IN SumRange([i \in 1..Len(steps) |-> steps[i].duration_hr], 1, Len(steps))

\* C21: in every repair plan built from a built-in profile, whatever the
\* severity, lane_closure_hours <= on_site_hours and the plan_steps durations
\* (floored at 0.15 and rounded to 2 decimals) sum to at most on_site_hours.
C21_ScheduleConsistent ==
  PlanReturned =>
    LET schedule == result.value.repair_plan.schedule
    IN /\ schedule.lane_closure_hours <= schedule.on_site_hours
       /\ C21_StepsTotal <= schedule.on_site_hours

\* the tightest plan: steps at the 0.15 floor and the lane closure at its
\* 0.75 floor, against 0.78 hours on site (debris at scale 0.6)
C21_Witness ==
  /\ PlanReturned
  /\ result.value.repair_plan.plan_steps[1].duration_hr = 15
  /\ result.value.repair_plan.schedule.lane_closure_hours = 75
  /\ C21_StepsTotal = 75
  /\ result.value.repair_plan.schedule.on_site_hours = 78

\* a plan above both floors, whose step durations were rounded up
C21_WitnessRoundedUp ==
  /\ PlanReturned
  /\ result.value.repair_plan.schedule.lane_closure_hours > 75
  /\ 10 * C21_StepsTotal > C8_Hours

----------------------------------------------------------------------------
(* C22 *)

\* a tool classified one record: a plan was built or one hazard projected
C22_Served == PlanReturned \/ HazardProjReturned

\* the hazard_type of that record
C22_Type ==
  IF PlanReturned THEN result.value.hazard.hazard_type
  ELSE RowOf(call.args.hazard_id).hazard_type

\* the tool's output is the one its own lookup key selects: the profile of
\* the key or the pothole profile, the multiplier of the key or 1.10
C22_OutputFollowsLookup ==
  LET p == ProfileLookup(C22_Type)
      w == WorseningLookup(C22_Type)
  IN /\ PlanReturned =>
          result.value.repair_plan.tools_materials
            = tables.HAZARD_PROFILES[IF p \in DOMAIN tables.HAZARD_PROFILES
                                     THEN p ELSE S_pothole].materials
     /\ HazardProjReturned =>
          result.value.inputs.progression_per_week
            = Min(2500, 2 * Clamp10(result.value.inputs.severity_now)
                          * (IF w \in DOMAIN tables.TYPE_WORSENING
                             THEN tables.TYPE_WORSENING[w] ELSE 110))

\* plan building and progression classify the type alike: both match the
\* same key, or both fall back
C22_Alike(ty) ==
  LET p == ProfileLookup(ty)
      w == WorseningLookup(ty)
  IN /\ (p \in DOMAIN tables.HAZARD_PROFILES) <=> (w \in DOMAIN tables.TYPE_WORSENING)
     /\ p \in DOMAIN tables.HAZARD_PROFILES => p = w

\* C22: for every hazard_type string (any letter case, with or without
\* surrounding whitespace) _get_profile selects a built-in profile by key
\* match if and only if _progression_per_week selects that same type's
\* multiplier by key match, and one falls back exactly when the other does.
C22_SameClassification ==
  C22_Served => C22_OutputFollowsLookup /\ C22_Alike(C22_Type)

\* the same for hazard_type values without surrounding whitespace
C22_SameClassificationUnpadded ==
  (C22_Served /\ (C22_Type.t = "str" => StrStrip(C22_Type.v) = C22_Type.v)) =>
    C22_OutputFollowsLookup /\ C22_Alike(C22_Type)

\* a record of a known type in another letter case was classified
C22_WitnessUnpadded ==
  /\ C22_Served
  /\ C22_Type.t = "str"
  /\ StrStrip(C22_Type.v) = C22_Type.v
  /\ C22_Type.v # StrLower(C22_Type.v)
  /\ ProfileLookup(C22_Type) \in DOMAIN tables.HAZARD_PROFILES

====
